---- MODULE Spec2Model ----
(***************************************************************************)
(* Model of the hw0 command line tool (jmaness/csc519-HW0-DevOps).         *)
(*                                                                         *)
(* One behaviour is one process invocation: `node hw0.js <cmd> <provider>  *)
(* [id]`, for either of the two revisions of the script kept in the        *)
(* repository (src/hw0.js and src/unnamed/part_000).  A step is one        *)
(* synchronous stretch of the script up to and including the next remote   *)
(* call; the answer of the vendor is the nondeterministic input of the     *)
(* step.  The provider clients' describe operation is also entered         *)
(* directly (cmd = "describe"), as a caller of the class would, and the    *)
(* create parameters, which the script fixes, range over empty and         *)
(* non-empty values so that the clients' parameter checks are exercised.   *)
(***************************************************************************)
EXTENDS Integers, Sequences, FiniteSets, TLC

\* retries option of the DigitalOcean create poll (async-retry)
DO_CREATE_RETRIES == 10
\* retries option of the AWS create poll
AWS_CREATE_RETRIES == 10
\* retries option of the AWS termination poll
AWS_TERMINATE_RETRIES == 50
\* minTimeout option (ms) of the DigitalOcean create poll
DO_CREATE_MIN_TIMEOUT == 3000
\* minTimeout option (ms) of the AWS create poll
AWS_CREATE_MIN_TIMEOUT == 3000
\* minTimeout and maxTimeout options (ms) of the AWS termination poll
AWS_TERMINATE_MIN_TIMEOUT == 1000
AWS_TERMINATE_MAX_TIMEOUT == 3000

\* Names of SSH keys an account may hold.
KeyNames == {"csc519", "other"}

\* Addresses the vendor may assign.
Addresses == {"203.0.113.5", "198.51.100.7"}

\* argv.id as yargs parses it: a numeric token becomes a number, any other a string.
NumberId == [type |-> "number", value |-> "555"]
StringId == [type |-> "string", value |-> "i-0abc"]
NoId == [type |-> "undefined", value |-> ""]

VARIABLES
    script,          \* which revision runs: "hw0" or "part_000"
    token,           \* process.env.NCSU_DOTOKEN ("" when not set)
    cmd,             \* "create", "rm" (yargs commands) or "describe" (direct call)
    provider,        \* "digitalocean" or "aws"
    accountKeys,     \* names of the SSH keys of the DigitalOcean account
    name, region, image, sshKeyPairName,   \* the create parameters
    id,              \* the instance id in use (argv.id, or the id the vendor assigned)
    pc,              \* position of the single task
    exitCode,        \* -1 while process.exit was not called, else its argument
    raised,          \* error propagated out of the command handler, "none" if none
    ret,             \* what the provider operation returned to its caller
    log,             \* kinds of messages written to the console
    keyCalls,        \* GET /v2/account/keys requests issued
    createCalls,     \* POST /v2/droplets or RunInstances calls issued
    tagCalls,        \* CreateTags calls issued
    describeCalls,   \* GET /v2/droplets/<id> or DescribeInstances calls issued
    deleteCalls,     \* DELETE /v2/droplets/<id> or TerminateInstances calls issued
    polls,           \* poll sequences (retry(...) calls) started
    probes,          \* probe invocations of the poll sequence
    firstReady,      \* number of the first attempt the vendor answered ready, 0 if none yet
    readyValue,      \* the address or state the vendor reported in that answer
    loopResult,      \* value the retry(...) promise resolved with, "" if none
    sleeps,          \* timed suspensions of the poll sequence so far
    lastSleep,       \* length (ms) of the latest of them, 0 if none
    createResponse,  \* answer to the create call: "none", "failed", "created", "other"
    deleteResponse   \* answer to the first delete call: "none", "failed", "204", "200", "ok"

params == <<name, region, image, sshKeyPairName>>
input == <<script, token, cmd, provider, accountKeys>>
calls == <<keyCalls, createCalls, tagCalls, describeCalls, deleteCalls>>
loop == <<polls, probes, firstReady, readyValue, loopResult, sleeps, lastSleep>>
vars == <<script, token, cmd, provider, accountKeys, name, region, image, sshKeyPairName, id, pc,
          exitCode, raised, ret, log, keyCalls, createCalls, tagCalls, describeCalls,
          deleteCalls, polls, probes, firstReady, readyValue, loopResult, sleeps, lastSleep,
          createResponse, deleteResponse>>

\* Entry point of the invocation: part_000 runs its top-level token check first,
\* hw0.js goes straight to the yargs handler; a direct describe call enters the method.
EntryPc(s, c, p) ==
    IF c = "describe"
    THEN (IF p = "digitalocean" THEN "dropletInfo" ELSE "instanceInfo")
    ELSE (IF s = "part_000" THEN "start" ELSE "dispatch")

Init ==
    /\ script \in {"hw0", "part_000"}
    /\ token \in {"", "dop_v1_token"}
    /\ cmd \in {"create", "rm", "describe"}
    /\ provider \in {"digitalocean", "aws"}
    /\ cmd = "describe" => script = "hw0"
    /\ accountKeys \in SUBSET KeyNames
    /\ name \in {"", "jwmanes2-uuid"}
    /\ region \in {"", "nyc1"}
    /\ image \in {"", "ubuntu-19-10-x64"}
    /\ sshKeyPairName \in {"", "csc519"}
    /\ script = "part_000" => sshKeyPairName = "csc519"
    /\ cmd # "create" => /\ name = "jwmanes2-uuid"
                         /\ region = "nyc1"
                         /\ image = "ubuntu-19-10-x64"
                         /\ sshKeyPairName = "csc519"
    /\ id \in (IF cmd = "create" THEN {NoId} ELSE {NumberId, StringId})
    /\ pc = EntryPc(script, cmd, provider)
    /\ exitCode = -1
    /\ raised = "none"
    /\ ret = "pending"
    /\ log = {}
    /\ keyCalls = 0
    /\ createCalls = 0
    /\ tagCalls = 0
    /\ describeCalls = 0
    /\ deleteCalls = 0
    /\ polls = 0
    /\ probes = 0
    /\ firstReady = 0
    /\ readyValue = ""
    /\ loopResult = ""
    /\ sleeps = 0
    /\ lastSleep = 0
    /\ createResponse = "none"
    /\ deleteResponse = "none"

-----------------------------------------------------------------------------
\* Faulty variant of RetryAgain: `retries` taken as the total number of attempts.
RetryAgain_asAttempts(n, retries) == n < retries

\* async-retry: after failed attempt number n the operation is retried while one of
\* the `retries` timeouts is left, so a poll makes at most retries + 1 attempts.
RetryAgain(n, retries) == n <= retries

\* One attempt of a poll: the probe was invoked and was `ready` with `value` or
\* threw; the retry wrapper resolves, sleeps and tries again, or rejects.
PollAttempt(ready, value, retries, after) ==
    /\ probes' = probes + 1
    /\ polls' = polls
    /\ IF ready
       THEN /\ loopResult' = value
            /\ pc' = after
            /\ raised' = raised
       ELSE /\ loopResult' = loopResult
            /\ IF RetryAgain(probes + 1, retries)
               THEN /\ pc' = pc
                    /\ raised' = raised
               ELSE /\ pc' = "done"
                    /\ raised' = "Exhausted"

\* Values of async-retry's random factor (Math.random() + 1, in [1, 2)), in tenths;
\* randomize is on unless the options turn it off, and none of the polls does.
RandomTenths == {10, 15, 19}

\* Faulty variant of createTimeout: a fixed interval, no growth with the attempt.
createTimeout_fixed(attempt, random, minTimeout) == minTimeout

\* async-retry's timeout before retry number attempt + 1 (attempt counts from 0):
\* round(random * minTimeout * factor^attempt), the factor left at its default of 2.
createTimeout(attempt, random, minTimeout) == (random * minTimeout * 2^attempt) \div 10

\* The timeouts a poll without a maxTimeout option may draw for that retry.
Timeouts(attempt, minTimeout) ==
    {createTimeout(attempt, r, minTimeout) : r \in RandomTenths}

\* x * 2^n, cut short once it has reached cap (a JavaScript number holds the full
\* product; a 32-bit integer would not).
RECURSIVE ScaledUpTo(_, _, _)
ScaledUpTo(x, n, cap) == IF n = 0 \/ x >= cap THEN x ELSE ScaledUpTo(2 * x, n - 1, cap)

\* The same with a maxTimeout option: Math.min(timeout, maxTimeout); the random
\* factor is at least 1, so the cap applies once minTimeout * 2^attempt reaches it.
CappedTimeouts(attempt, minTimeout, maxTimeout) ==
    IF ScaledUpTo(minTimeout, attempt, maxTimeout) >= maxTimeout
    THEN {maxTimeout}
    ELSE {IF t < maxTimeout THEN t ELSE maxTimeout : t \in Timeouts(attempt, minTimeout)}

\* The suspension between two attempts: the wrapper sleeps only when the attempt
\* failed and a retry is left; each retry has its own timeout, drawn when retry(...)
\* builds its operation.
SleepBeforeRetry(ready, retries, timeouts) ==
    IF ~ready /\ RetryAgain(probes + 1, retries)
    THEN /\ sleeps' = sleeps + 1
         /\ lastSleep' \in timeouts
    ELSE UNCHANGED <<sleeps, lastSleep>>

\* What the vendor said in answer to the probe of this attempt: the first ready answer
\* and its value are remembered.
Observe(ready, value) ==
    /\ firstReady' = IF firstReady = 0 /\ ready THEN probes + 1 ELSE firstReady
    /\ readyValue' = IF firstReady = 0 /\ ready THEN value ELSE readyValue

\* process.exit(1) after the three messages about the missing token
ExitNoToken ==
    /\ log' = log \cup {"token-missing"}
    /\ exitCode' = 1
    /\ pc' = "exited"

-----------------------------------------------------------------------------
\* Vendor answers (the REST API and the SDK are black boxes returning JSON).

\* GET /v2/account/keys through makeRequest: the request failed (makeRequest logged it
\* and returned undefined) or the body lists the account's keys.
KeysResponses ==
    {[ok |-> FALSE, ssh_keys |-> {}], [ok |-> TRUE, ssh_keys |-> accountKeys]}

\* POST /v2/droplets: "failed" (got rejected: network error or non-2xx), "created"
\* (202 with body.droplet), "other" (a 2xx answer whose body carries no droplet).
CreateResponses == {"failed", "created", "other"}

\* GET /v2/droplets/<id> through makeRequest; v4 is droplet.networks.v4.
DropletResponses ==
    {[ok |-> FALSE, droplet |-> FALSE, v4 |-> <<>>], [ok |-> TRUE, droplet |-> FALSE, v4 |-> <<>>]}
    \cup {[ok |-> TRUE, droplet |-> TRUE, v4 |-> n] :
            n \in {<<>>} \cup {<<a>> : a \in Addresses}
                         \cup {<<a, b>> : a, b \in Addresses}}

\* The droplet of the answer has an IPv4 address assigned; the first one.
DropletHasAddress(resp) == resp.ok /\ resp.droplet /\ resp.v4 # <<>>
DropletFirstAddress(resp) == IF resp.v4 # <<>> THEN Head(resp.v4) ELSE ""

\* DELETE /v2/droplets/<id>: "failed", "204", or "200" (a 2xx status other than 204).
DropletDeleteResponses == {"failed", "204", "200"}

\* DescribeInstances: the promise rejected, or Reservations[0].Instances[0] with its
\* PublicIpAddress ("" while none is assigned).
InstanceResponses ==
    {[ok |-> FALSE, PublicIpAddress |-> ""], [ok |-> TRUE, PublicIpAddress |-> ""]}
    \cup {[ok |-> TRUE, PublicIpAddress |-> a] : a \in Addresses}

\* TerminateInstances: the promise rejected, or TerminatingInstances[0].CurrentState.Name.
TerminateResponses ==
    {[ok |-> FALSE, state |-> ""]}
    \cup {[ok |-> TRUE, state |-> s] : s \in {"shutting-down", "stopped", "terminated"}}

\* The instance of the answer has a public address; it is stopped or terminated.
InstanceHasAddress(resp) == resp.ok /\ resp.PublicIpAddress \in Addresses
InstanceTerminal(resp) == resp.ok /\ resp.state \in {"stopped", "terminated"}

-----------------------------------------------------------------------------
\* yargs command handlers: the switch on argv.provider.
Dispatch ==
    /\ pc = "dispatch"
    /\ pc' = CASE cmd = "create" /\ provider = "digitalocean" -> "provisionDigitalOceanDroplet"
               [] cmd = "create" /\ provider = "aws" -> "provisionAWSInstance"
               [] cmd = "rm" /\ provider = "digitalocean" -> "destroyDigitalOceanDroplet"
               [] cmd = "rm" /\ provider = "aws" -> "destroyAWSInstance"
    /\ UNCHANGED <<input, params, id, exitCode, raised, ret, log, calls, loop,
                   createResponse, deleteResponse>>

\* Faulty variant of validateDigitalOceanToken: the token is not looked at.
validateDigitalOceanToken_unchecked == TRUE

\* validateDigitalOceanToken: the token is usable iff it is set and not empty.
validateDigitalOceanToken == token # ""

\* hw0.js provisionDigitalOceanDroplet up to the call of client.createDroplet
provisionDigitalOceanDroplet ==
    /\ script = "hw0"
    /\ pc = "provisionDigitalOceanDroplet"
    /\ IF validateDigitalOceanToken
       THEN pc' = "createDroplet" /\ UNCHANGED <<log, exitCode>>
       ELSE ExitNoToken
    /\ UNCHANGED <<input, params, id, raised, ret, calls, loop, createResponse,
                   deleteResponse>>

\* The parameter check of hw0.js createDroplet.
createDropletParamsEmpty ==
    name = "" \/ region = "" \/ image = "" \/ sshKeyPairName = ""

\* hw0.js createDroplet up to the key lookup; a rejected call returns undefined, which
\* provisionDigitalOceanDroplet takes as "nothing to poll".
createDroplet ==
    /\ script = "hw0"
    /\ pc = "createDroplet"
    /\ IF createDropletParamsEmpty
       THEN /\ log' = log \cup {"validation"}
            /\ ret' = "undefined"
            /\ pc' = "done"
       ELSE /\ pc' = "findSSHKeyPair"
            /\ UNCHANGED <<log, ret>>
    /\ UNCHANGED <<input, params, id, exitCode, raised, calls, loop, createResponse,
                   deleteResponse>>

\* Faulty variant of SSHKeyFound: the first key of the list is taken, whatever its name.
SSHKeyFound_firstKey(resp, keyName) == resp.ok /\ resp.ssh_keys # {}

\* ssh_keys.find(key => key.name === name) found a key
SSHKeyFound(resp, keyName) == resp.ok /\ keyName \in resp.ssh_keys

\* findSSHKeyPair: one GET of the key list, then the key's id or an Error.
findSSHKeyPair ==
    /\ pc = "findSSHKeyPair"
    /\ \E resp \in KeysResponses :
        /\ keyCalls' = keyCalls + 1
        /\ log' = IF resp.ok THEN log ELSE log \cup {"transport"}
        /\ IF SSHKeyFound(resp, sshKeyPairName)
           THEN pc' = "postDroplet" /\ raised' = raised
           ELSE pc' = "done" /\ raised' = "NotFoundError"
    /\ UNCHANGED <<input, params, id, exitCode, ret, createCalls, tagCalls, describeCalls,
                   deleteCalls, loop, createResponse, deleteResponse>>

\* Faulty variant of StartsDropletPoll: the body is not looked at.
StartsDropletPoll_anyResponse(resp) == resp # "failed"

\* Faulty variant of StartsDropletPoll: the poll starts whatever createDroplet returned.
StartsDropletPoll_always(resp) == TRUE

\* `createDropletResponse && createDropletResponse.body.droplet`
StartsDropletPoll(resp) == resp = "created"

\* The POST of createDroplet and what provisionDigitalOceanDroplet does with the answer:
\* with a droplet in the body it starts the poll, otherwise it returns.
postDroplet ==
    /\ pc = "postDroplet"
    /\ \E resp \in CreateResponses :
        /\ createCalls' = createCalls + 1
        /\ createResponse' = resp
        /\ log' = log \cup {"attempting"}
                      \cup (IF resp = "failed" THEN {"transport"} ELSE {})
                      \cup (IF resp = "created" THEN {"created"} ELSE {})
        /\ ret' = IF resp = "failed" THEN "undefined" ELSE "response"
        /\ IF StartsDropletPoll(resp)
           THEN /\ id' = NumberId
                /\ polls' = polls + 1
                /\ pc' = "pollDroplet"
           ELSE /\ pc' = "done"
                /\ UNCHANGED <<id, polls>>
    /\ UNCHANGED <<input, params, exitCode, raised, keyCalls, tagCalls, describeCalls,
                   deleteCalls, probes, firstReady, readyValue, loopResult, sleeps, lastSleep,
                   deleteResponse>>

\* What the catch handler of got.delete leaves to the caller of deleteDroplet: it
\* logs the error, nothing is thrown.
\* Faulty variant: the error is thrown on.
DeleteDropletError_rethrown(resp) == IF resp = "failed" THEN "TransportError" ELSE "none"

DeleteDropletError(resp) == "none"

\* The id check of dropletInfo and deleteDroplet: typeof id != "number"
dropletIdRejected(i) == i.type # "number"

\* Faulty variant of DropletReady: the length test is off by one.
DropletReady_offByOne(resp) == resp.ok /\ resp.droplet /\ Len(resp.v4) > 1

\* The readiness test of the droplet poll.
DropletReady(resp) == resp.ok /\ resp.droplet /\ Len(resp.v4) > 0

\* droplet.networks.v4[0].ip_address
DropletAddress(resp) == IF Len(resp.v4) > 0 THEN resp.v4[1] ELSE ""

\* One attempt of the droplet poll: dropletInfo(dropletId), then return the address or throw.
pollDroplet ==
    /\ pc = "pollDroplet"
    /\ IF dropletIdRejected(id)
       THEN /\ log' = log \cup {"validation"}
            /\ UNCHANGED <<describeCalls, firstReady, readyValue>>
            /\ PollAttempt(FALSE, "", DO_CREATE_RETRIES, "done")
            /\ SleepBeforeRetry(FALSE, DO_CREATE_RETRIES,
                                Timeouts(sleeps, DO_CREATE_MIN_TIMEOUT))
       ELSE \E resp \in DropletResponses :
            /\ describeCalls' = describeCalls + 1
            /\ log' = log \cup (IF resp.ok THEN {} ELSE {"transport"})
                          \cup (IF DropletReady(resp) THEN {"ip"} ELSE {})
            /\ Observe(DropletHasAddress(resp), DropletFirstAddress(resp))
            /\ PollAttempt(DropletReady(resp), DropletAddress(resp), DO_CREATE_RETRIES, "done")
            /\ SleepBeforeRetry(DropletReady(resp), DO_CREATE_RETRIES,
                                Timeouts(sleeps, DO_CREATE_MIN_TIMEOUT))
    /\ UNCHANGED <<input, params, id, exitCode, ret, keyCalls, createCalls, tagCalls,
                   deleteCalls, createResponse, deleteResponse>>

\* dropletInfo called on its own.
dropletInfo ==
    /\ pc = "dropletInfo"
    /\ IF dropletIdRejected(id)
       THEN /\ log' = log \cup {"validation"}
            /\ ret' = "undefined"
            /\ UNCHANGED describeCalls
       ELSE \E resp \in DropletResponses :
            /\ describeCalls' = describeCalls + 1
            /\ log' = IF resp.ok THEN log ELSE log \cup {"transport"}
            /\ ret' = IF resp.ok THEN "response" ELSE "undefined"
    /\ pc' = "done"
    /\ UNCHANGED <<input, params, id, exitCode, raised, keyCalls, createCalls, tagCalls,
                   deleteCalls, loop, createResponse, deleteResponse>>

\* hw0.js destroyDigitalOceanDroplet up to the call of client.deleteDroplet
destroyDigitalOceanDroplet ==
    /\ script = "hw0"
    /\ pc = "destroyDigitalOceanDroplet"
    /\ IF validateDigitalOceanToken
       THEN pc' = "deleteDroplet" /\ UNCHANGED <<log, exitCode>>
       ELSE ExitNoToken
    /\ UNCHANGED <<input, params, id, raised, ret, calls, loop, createResponse,
                   deleteResponse>>

\* deleteDroplet: the id check, one DELETE, the success message on a 204; it returns
\* undefined on every path.
deleteDroplet ==
    /\ pc = "deleteDroplet"
    /\ IF dropletIdRejected(id)
       THEN /\ log' = log \cup {"validation"}
            /\ UNCHANGED <<deleteCalls, deleteResponse, raised>>
       ELSE \E resp \in DropletDeleteResponses :
            /\ deleteCalls' = deleteCalls + 1
            /\ deleteResponse' = resp
            /\ raised' = DeleteDropletError(resp)
            /\ log' = log \cup (IF resp = "failed" THEN {"transport"} ELSE {})
                          \cup (IF resp = "204" THEN {"deleted"} ELSE {})
    /\ ret' = "undefined"
    /\ pc' = "done"
    /\ UNCHANGED <<input, params, id, exitCode, keyCalls, createCalls, tagCalls,
                   describeCalls, loop, createResponse>>

-----------------------------------------------------------------------------
\* AWS (hw0.js only)

\* hw0.js provisionAWSInstance up to the call of client.createInstance: no token is read.
provisionAWSInstance ==
    /\ script = "hw0"
    /\ pc = "provisionAWSInstance"
    /\ log' = log \cup {"creating"}
    /\ pc' = "createInstance"
    /\ UNCHANGED <<input, params, id, exitCode, raised, ret, calls, loop, createResponse,
                   deleteResponse>>

\* createInstance, first call: RunInstances with the parameters as given (no check of
\* them); a rejection propagates to the caller.
createInstance ==
    /\ pc = "createInstance"
    /\ \E resp \in {"failed", "created"} :
        /\ createCalls' = createCalls + 1
        /\ createResponse' = resp
        /\ IF resp = "created"
           THEN /\ id' = StringId
                /\ pc' = "createTags"
                /\ raised' = raised
           ELSE /\ id' = id
                /\ pc' = "done"
                /\ raised' = "TransportError"
    /\ UNCHANGED <<input, params, exitCode, ret, log, keyCalls, tagCalls, describeCalls,
                   deleteCalls, loop, deleteResponse>>

\* createInstance, second call: CreateTags names the instance.
createTags ==
    /\ pc = "createTags"
    /\ \E ok \in BOOLEAN :
        /\ tagCalls' = tagCalls + 1
        /\ IF ok
           THEN pc' = "createInstanceInfo" /\ raised' = raised
           ELSE pc' = "done" /\ raised' = "TransportError"
    /\ UNCHANGED <<input, params, id, exitCode, ret, log, keyCalls, createCalls,
                   describeCalls, deleteCalls, loop, createResponse, deleteResponse>>

\* createInstance, third call: `return await this.instanceInfo(instanceId)`; with the
\* instance in hand provisionAWSInstance starts the poll.
createInstanceInfo ==
    /\ pc = "createInstanceInfo"
    /\ \E resp \in InstanceResponses :
        /\ describeCalls' = describeCalls + 1
        /\ IF resp.ok
           THEN /\ ret' = "response"
                /\ log' = log \cup {"instance-id", "waiting"}
                /\ polls' = polls + 1
                /\ pc' = "pollInstance"
                /\ raised' = raised
           ELSE /\ pc' = "done"
                /\ raised' = "TransportError"
                /\ UNCHANGED <<ret, log, polls>>
    /\ UNCHANGED <<input, params, id, exitCode, keyCalls, createCalls, tagCalls,
                   deleteCalls, probes, firstReady, readyValue, loopResult, sleeps, lastSleep,
                   createResponse, deleteResponse>>

\* The readiness test of the instance poll: `if (info.PublicIpAddress)`; a rejected
\* DescribeInstances throws out of the probe like a not-ready answer.
InstanceReady(resp) == resp.ok /\ resp.PublicIpAddress # ""

\* One attempt of the instance poll.
pollInstance ==
    /\ pc = "pollInstance"
    /\ \E resp \in InstanceResponses :
        /\ describeCalls' = describeCalls + 1
        /\ log' = log \cup (IF InstanceReady(resp) THEN {"ip"} ELSE {})
        /\ Observe(InstanceHasAddress(resp), resp.PublicIpAddress)
        /\ PollAttempt(InstanceReady(resp), resp.PublicIpAddress, AWS_CREATE_RETRIES, "done")
        /\ SleepBeforeRetry(InstanceReady(resp), AWS_CREATE_RETRIES,
                            Timeouts(sleeps, AWS_CREATE_MIN_TIMEOUT))
    /\ UNCHANGED <<input, params, id, exitCode, ret, keyCalls, createCalls, tagCalls,
                   deleteCalls, createResponse, deleteResponse>>

\* instanceInfo called on its own: the id goes to DescribeInstances unchecked.
instanceInfo ==
    /\ pc = "instanceInfo"
    /\ \E resp \in InstanceResponses :
        /\ describeCalls' = describeCalls + 1
        /\ IF resp.ok
           THEN ret' = "response" /\ raised' = raised
           ELSE ret' = ret /\ raised' = "TransportError"
    /\ pc' = "done"
    /\ UNCHANGED <<input, params, id, exitCode, log, keyCalls, createCalls, tagCalls,
                   deleteCalls, loop, createResponse, deleteResponse>>

\* hw0.js destroyAWSInstance up to the call of client.deleteInstance
destroyAWSInstance ==
    /\ script = "hw0"
    /\ pc = "destroyAWSInstance"
    /\ log' = log \cup {"deleting"}
    /\ pc' = "deleteInstance"
    /\ UNCHANGED <<input, params, id, exitCode, raised, ret, calls, loop, createResponse,
                   deleteResponse>>

\* deleteInstance, the TerminateInstances call before the poll: the id goes to the
\* SDK unchecked and a rejection propagates to the caller.
deleteInstance ==
    /\ pc = "deleteInstance"
    /\ \E resp \in TerminateResponses :
        /\ deleteCalls' = deleteCalls + 1
        /\ IF resp.ok
           THEN /\ deleteResponse' = "ok"
                /\ log' = log \cup {"waiting"}
                /\ polls' = polls + 1
                /\ pc' = "pollTermination"
                /\ raised' = raised
           ELSE /\ deleteResponse' = "failed"
                /\ pc' = "done"
                /\ raised' = "TransportError"
                /\ UNCHANGED <<log, polls>>
    /\ UNCHANGED <<input, params, id, exitCode, ret, keyCalls, createCalls, tagCalls,
                   describeCalls, probes, firstReady, readyValue, loopResult, sleeps, lastSleep,
                   createResponse>>

\* The readiness test of the termination poll: terminalStates.includes(currentState)
TerminationReady(resp) == resp.ok /\ resp.state \in {"stopped", "terminated"}

\* One attempt of the termination poll: TerminateInstances again; once the poll
\* resolves deleteInstance returns the answer of its first call.
pollTermination ==
    /\ pc = "pollTermination"
    /\ \E resp \in TerminateResponses :
        /\ deleteCalls' = deleteCalls + 1
        /\ ret' = IF TerminationReady(resp) THEN "response" ELSE ret
        /\ Observe(InstanceTerminal(resp), resp.state)
        /\ PollAttempt(TerminationReady(resp), resp.state, AWS_TERMINATE_RETRIES, "done")
        /\ SleepBeforeRetry(TerminationReady(resp), AWS_TERMINATE_RETRIES,
                            CappedTimeouts(sleeps, AWS_TERMINATE_MIN_TIMEOUT,
                                           AWS_TERMINATE_MAX_TIMEOUT))
    /\ UNCHANGED <<input, params, id, exitCode, log, keyCalls, createCalls, tagCalls,
                   describeCalls, createResponse, deleteResponse>>

-----------------------------------------------------------------------------
\* The earlier revision of the script (src/unnamed/part_000), where it differs.

\* Top level of part_000: config.token is read and checked before yargs runs.
ConfigToken ==
    /\ script = "part_000"
    /\ pc = "start"
    /\ IF token # ""
       THEN /\ log' = log \cup {"token-shown"}
            /\ pc' = "dispatch"
            /\ UNCHANGED exitCode
       ELSE ExitNoToken
    /\ UNCHANGED <<input, params, id, raised, ret, calls, loop, createResponse,
                   deleteResponse>>

\* part_000 provisionDigitalOceanDroplet up to the call of client.createDroplet: it
\* takes ssh_keys[0].id of the key list, a TypeError when there is no such thing.
provisionDigitalOceanDroplet_part000 ==
    /\ script = "part_000"
    /\ pc = "provisionDigitalOceanDroplet"
    /\ \E resp \in KeysResponses :
        /\ keyCalls' = keyCalls + 1
        /\ log' = IF resp.ok THEN log ELSE log \cup {"transport"}
        /\ IF resp.ok /\ resp.ssh_keys # {}
           THEN pc' = "createDroplet" /\ raised' = raised
           ELSE pc' = "done" /\ raised' = "TypeError"
    /\ UNCHANGED <<input, params, id, exitCode, ret, createCalls, tagCalls, describeCalls,
                   deleteCalls, loop, createResponse, deleteResponse>>

\* The parameter check of part_000 createDroplet (sshKeys is not looked at).
createDropletParamsEmpty_part000 == name = "" \/ region = "" \/ image = ""

\* part_000 createDroplet up to the POST
createDroplet_part000 ==
    /\ script = "part_000"
    /\ pc = "createDroplet"
    /\ IF createDropletParamsEmpty_part000
       THEN /\ log' = log \cup {"validation"}
            /\ ret' = "undefined"
            /\ pc' = "done"
       ELSE /\ pc' = "postDroplet"
            /\ UNCHANGED <<log, ret>>
    /\ UNCHANGED <<input, params, id, exitCode, raised, calls, loop, createResponse,
                   deleteResponse>>

\* part_000 destroyDigitalOceanDroplet up to the call of client.deleteDroplet
destroyDigitalOceanDroplet_part000 ==
    /\ script = "part_000"
    /\ pc = "destroyDigitalOceanDroplet"
    /\ pc' = "deleteDroplet"
    /\ UNCHANGED <<input, params, id, exitCode, raised, ret, log, calls, loop,
                   createResponse, deleteResponse>>

\* part_000 provisionAWSInstance: a message, nothing else
provisionAWSInstance_part000 ==
    /\ script = "part_000"
    /\ pc = "provisionAWSInstance"
    /\ log' = log \cup {"creating"}
    /\ pc' = "done"
    /\ UNCHANGED <<input, params, id, exitCode, raised, ret, calls, loop, createResponse,
                   deleteResponse>>

\* part_000 destroyAWSInstance: a message, nothing else
destroyAWSInstance_part000 ==
    /\ script = "part_000"
    /\ pc = "destroyAWSInstance"
    /\ log' = log \cup {"deleting"}
    /\ pc' = "done"
    /\ UNCHANGED <<input, params, id, exitCode, raised, ret, calls, loop, createResponse,
                   deleteResponse>>

-----------------------------------------------------------------------------
Next ==
    \/ Dispatch
    \/ provisionDigitalOceanDroplet
    \/ createDroplet
    \/ findSSHKeyPair
    \/ postDroplet
    \/ pollDroplet
    \/ dropletInfo
    \/ destroyDigitalOceanDroplet
    \/ deleteDroplet
    \/ provisionAWSInstance
    \/ createInstance
    \/ createTags
    \/ createInstanceInfo
    \/ pollInstance
    \/ instanceInfo
    \/ destroyAWSInstance
    \/ deleteInstance
    \/ pollTermination
    \/ ConfigToken
    \/ provisionDigitalOceanDroplet_part000
    \/ createDroplet_part000
    \/ destroyDigitalOceanDroplet_part000
    \/ provisionAWSInstance_part000
    \/ destroyAWSInstance_part000

Spec == Init /\ [][Next]_vars

TypeOK ==
    /\ pc \in {"start", "dispatch", "provisionDigitalOceanDroplet", "createDroplet",
               "findSSHKeyPair", "postDroplet", "pollDroplet", "dropletInfo",
               "destroyDigitalOceanDroplet", "deleteDroplet", "provisionAWSInstance",
               "createInstance", "createTags", "createInstanceInfo", "pollInstance",
               "instanceInfo", "destroyAWSInstance", "deleteInstance", "pollTermination",
               "done", "exited"}
    /\ raised \in {"none", "NotFoundError", "TransportError", "Exhausted", "TypeError"}
    /\ ret \in {"pending", "undefined", "response"}
    /\ exitCode \in {-1, 1}
    /\ probes \in 0..(AWS_TERMINATE_RETRIES + 1)
    /\ firstReady \in 0..probes
    /\ polls \in 0..1

-----------------------------------------------------------------------------
\* Vocabulary of the properties.

\* The retries option of the poll loop this invocation can reach.
Retries ==
    CASE cmd = "rm" -> AWS_TERMINATE_RETRIES
      [] cmd # "rm" /\ provider = "aws" -> AWS_CREATE_RETRIES
      [] OTHER -> DO_CREATE_RETRIES

AnyParamEmpty == name = "" \/ region = "" \/ image = "" \/ sshKeyPairName = ""

NoRemoteCall ==
    keyCalls = 0 /\ createCalls = 0 /\ tagCalls = 0 /\ describeCalls = 0 /\ deleteCalls = 0

\* C1: in every poll loop (droplet create, instance create, instance termination),
\* when the vendor's answer to attempt k is the first ready one, the loop has invoked
\* the probe exactly k times, has stopped without an error and has returned the value
\* of that answer (the first IPv4 address for a create); no probe follows it.
C1_StopsAtFirstReady ==
    firstReady # 0 =>
        /\ probes = firstReady
        /\ loopResult = readyValue
        /\ pc = "done"
        /\ raised = "none"

\* The scenario of the specification: not ready twice, then 203.0.113.5.
C1_Witness ==
    /\ cmd = "create"
    /\ provider = "digitalocean"
    /\ firstReady = 3
    /\ probes = 3
    /\ loopResult = "203.0.113.5"

\* C2 as stated: a poll whose probe is never ready invokes it exactly max_attempts
\* times, 10 for a create poll and 50 for the termination poll, never more and never
\* fewer, and then surfaces Exhausted.
C2_ExactlyMaxAttempts ==
    polls = 1 =>
        /\ probes <= Retries
        /\ (pc = "done" /\ firstReady = 0) => (raised = "Exhausted" /\ probes = Retries)

\* C2 amended: a poll whose probe is never ready invokes it exactly retries + 1 times
\* (11 for a create poll, 51 for the termination poll), never more and never fewer,
\* and then surfaces Exhausted instead of completing.
C2_ExactlyRetriesPlusOne ==
    /\ polls = 1 =>
        /\ probes <= Retries + 1
        /\ (pc = "done" /\ firstReady = 0) => (raised = "Exhausted" /\ probes = Retries + 1)
    /\ raised = "Exhausted" => (polls = 1 /\ firstReady = 0 /\ probes = Retries + 1)

C2_Witness ==
    /\ cmd = "rm"
    /\ provider = "aws"
    /\ raised = "Exhausted"
    /\ probes = AWS_TERMINATE_RETRIES + 1
    /\ deleteCalls = AWS_TERMINATE_RETRIES + 2

\* create returned a descriptor to the provisioning function: for DigitalOcean the
\* answer to the POST carries a droplet, for AWS RunInstances, CreateTags and the
\* DescribeInstances of createInstance all succeeded.
CreateSucceeded ==
    IF provider = "digitalocean"
    THEN createResponse = "created"
    ELSE createResponse = "created" /\ tagCalls = 1 /\ ret = "response"

\* C3 as stated: for non-empty parameters one create operation issues exactly one
\* vendor create call, and when that call succeeds exactly one poll sequence whose
\* probe calls stay within the configured attempt count (10).
C3_ExactlyOneCreateCall ==
    (script = "hw0" /\ cmd = "create" /\ ~AnyParamEmpty) =>
        /\ createCalls <= 1
        /\ pc = "done" => createCalls = 1
        /\ (pc = "done" /\ createResponse = "created") => polls = 1
        /\ polls <= 1
        /\ probes <= Retries

\* C3 amended (hw0.js): for non-empty parameters one create operation issues at most
\* one vendor create call, and exactly one unless the DigitalOcean key lookup ended it
\* with NotFoundError (or the missing token ended the process); a poll sequence is
\* started exactly when create returned a descriptor, never a second one, and its
\* probe calls never exceed retries + 1 = 11.
C3_OneCreateCallBoundedPoll ==
    (script = "hw0" /\ cmd = "create" /\ ~AnyParamEmpty) =>
        /\ createCalls <= 1
        /\ pc = "done" => (createCalls = 1 <=> raised # "NotFoundError")
        /\ raised = "NotFoundError" => (provider = "digitalocean" /\ keyCalls = 1)
        /\ pc = "exited" => (createCalls = 0 /\ provider = "digitalocean" /\ token = "")
        /\ polls = (IF CreateSucceeded THEN 1 ELSE 0)
        /\ probes <= Retries + 1
        /\ probes > 0 => polls = 1

C3_Witness ==
    /\ script = "hw0"
    /\ cmd = "create"
    /\ provider = "aws"
    /\ ~AnyParamEmpty
    /\ createCalls = 1
    /\ polls = 1
    /\ probes = AWS_CREATE_RETRIES + 1
    /\ pc = "done"

-----------------------------------------------------------------------------
\* C4 as stated (hw0.js): with any one create parameter empty, create of either
\* provider issues no remote call at all and signals the validation error.
C4_EmptyParamNoRemoteCall ==
    (script = "hw0" /\ cmd = "create" /\ AnyParamEmpty) =>
        /\ NoRemoteCall
        /\ pc = "done" => ("validation" \in log /\ ret = "undefined")

\* The id type each vendor expects.
ExpectedIdType == IF provider = "digitalocean" THEN "number" ELSE "string"

\* C5 as stated: describe and delete of either provider reject an id of the wrong type
\* (DigitalOcean wants a number, AWS a string) with the validation error and without a
\* remote call.
C5_WrongIdTypeRejected ==
    (script = "hw0" /\ cmd \in {"rm", "describe"} /\ id.type # ExpectedIdType) =>
        /\ NoRemoteCall
        /\ pc = "done" => "validation" \in log

\* C6 (hw0.js): DigitalOcean create looks the key up before the create call; when the
\* account holds no key named sshKeyRef the create ends with NotFoundError, and no
\* create call and no describe call is ever issued.
C6_KeyLookupBeforeCreate ==
    (script = "hw0" /\ cmd = "create" /\ provider = "digitalocean") =>
        /\ createCalls > 0 => (keyCalls = 1 /\ sshKeyPairName \in accountKeys)
        /\ sshKeyPairName \notin accountKeys =>
            /\ createCalls = 0
            /\ describeCalls = 0
            /\ polls = 0
            /\ (pc = "done" /\ ~AnyParamEmpty) => (raised = "NotFoundError" /\ keyCalls = 1)

C6_Witness ==
    /\ script = "hw0"
    /\ cmd = "create"
    /\ provider = "digitalocean"
    /\ sshKeyPairName = "csc519"
    /\ accountKeys = {"other"}
    /\ keyCalls = 1
    /\ raised = "NotFoundError"
    /\ "transport" \notin log

\* The vendor acknowledged the deletion: a 204 for DigitalOcean, a stopped or
\* terminated state in answer to a probe for AWS.
DeleteAcknowledged ==
    IF provider = "digitalocean" THEN deleteResponse = "204" ELSE firstReady # 0

\* What the caller of delete sees after an acknowledged deletion: nothing raised, and
\* undefined (deleteDroplet) or the answer of TerminateInstances (deleteInstance).
LooksLikeSuccessfulDelete ==
    /\ raised = "none"
    /\ ret = (IF provider = "digitalocean" THEN "undefined" ELSE "response")

\* C7 as stated (hw0.js): delete reports success to its caller only when the vendor
\* acknowledged the deletion; in every other outcome the caller does not observe
\* the result of a successful delete.
C7_SuccessOnlyWhenAcknowledged ==
    (script = "hw0" /\ cmd = "rm" /\ pc = "done" /\ ~DeleteAcknowledged) =>
        ~LooksLikeSuccessfulDelete

BeforeProviderOperation ==
    pc \in {"start", "dispatch", "provisionDigitalOceanDroplet", "provisionAWSInstance",
            "destroyDigitalOceanDroplet", "destroyAWSInstance", "exited"}

\* C9 as stated: in every invocation without the DigitalOcean token, whatever the
\* command and the provider, the process ends with exit code 1 before any remote call
\* and before any provider operation.
C9_NoTokenExitsFirst ==
    (cmd \in {"create", "rm"} /\ token = "") =>
        /\ NoRemoteCall
        /\ BeforeProviderOperation
        /\ pc = "exited" => exitCode = 1

\* C9 amended: in every invocation of a DigitalOcean command without the token (and,
\* in the earlier revision part_000, of any command) the process ends with exit code 1
\* before any remote call and before any provider operation; the AWS commands of
\* hw0.js do not read the token.
C9_NoTokenExitsDigitalOcean ==
    (cmd \in {"create", "rm"} /\ token = "" /\ (provider = "digitalocean" \/ script = "part_000")) =>
        /\ NoRemoteCall
        /\ pc \in {"start", "dispatch", "provisionDigitalOceanDroplet",
                   "destroyDigitalOceanDroplet", "exited"}
        /\ ret = "pending"
        /\ pc = "exited" <=> exitCode = 1
        /\ pc = "exited" => "token-missing" \in log

C9_Witness ==
    /\ script = "hw0"
    /\ cmd = "create"
    /\ provider = "digitalocean"
    /\ token = ""
    /\ pc = "exited"
    /\ exitCode = 1

\* C10 as stated: for either provider a create call that fails at transport level is
\* logged and taken as an empty result: no second create call, no poll, no describe
\* call, and nothing raised to the caller.
C10_FailedCreateIsEmptyResult ==
    (script = "hw0" /\ cmd = "create" /\ createResponse = "failed") =>
        /\ createCalls = 1
        /\ polls = 0
        /\ describeCalls = 0
        /\ raised = "none"
        /\ "transport" \in log

\* C10 amended (hw0.js): for DigitalOcean a create call that fails at transport level
\* is logged and taken as an empty result, and the create operation completes without
\* raising; for AWS the failure of RunInstances is raised to the caller; for both the
\* create call is not retried and no poll and no describe call follows.
C10_FailedCreateNotRetried ==
    (script = "hw0" /\ cmd = "create" /\ createResponse = "failed") =>
        /\ createCalls = 1
        /\ polls = 0
        /\ probes = 0
        /\ describeCalls = 0
        /\ tagCalls = 0
        /\ pc = "done"
        /\ IF provider = "digitalocean"
           THEN raised = "none" /\ "transport" \in log /\ ret = "undefined"
           ELSE raised = "TransportError" /\ ret = "pending"

C10_Witness ==
    /\ script = "hw0"
    /\ cmd = "create"
    /\ provider = "digitalocean"
    /\ createResponse = "failed"
    /\ createCalls = 1
    /\ keyCalls = 1
    /\ pc = "done"

-----------------------------------------------------------------------------
\* The minTimeout option of the create poll this invocation can reach.
CreateMinTimeout ==
    IF provider = "aws" THEN AWS_CREATE_MIN_TIMEOUT ELSE DO_CREATE_MIN_TIMEOUT

====
